---- MODULE Spec2Model ----
(***************************************************************************)
(* linux-whispr: the dictation controller (LinuxWhispr in app.py), the     *)
(* microphone capture (AudioCapture in audio/capture.py) and the threads   *)
(* that act on them: the hotkey thread, the sounddevice driver callback,   *)
(* the silence monitor (_vad_monitor), the duration-guard stop workers     *)
(* spawned by the callback, and the stt-pipeline threads (_process_audio). *)
(*                                                                         *)
(* Wall-clock readings are abstracted: any callback of a recording may be  *)
(* the first to read "duration >= MAX_RECORDING_DURATION" (overLimit       *)
(* remembers that one did, the clock being monotonic), and should_stop()'s *)
(* two timing comparisons are a free choice once speech has been detected. *)
(* The detector itself (SileroVAD in audio/vad.py) is modelled on its own, *)
(* with its timestamps and a clock, as VadSpec.                            *)
(***************************************************************************)
EXTENDS Integers, Sequences, FiniteSets, TLC

\* Bounds of the model.
MaxSessions == 2    \* calls of _start_recording explored
MaxFrames == 1      \* blocks appended to one session's frame list
MaxWorkers == 2     \* duration-guard stop workers alive at one time
MaxClock == 25      \* last clock reading of the VAD unit model, in 0.1 s
MaxCalls == 3       \* start() calls made on AudioCapture on its own
MaxHandlers == 2    \* handlers registered for one event of the bus
MaxSamples == 8     \* short buffers handed to _to_wav: 0..MaxSamples samples
MaxSeconds == 3     \* long buffers: 1..MaxSeconds seconds at the sample rate
MaxInjects == 2     \* inject() calls made on TextInjector on its own

VARIABLES
    state,            \* LinuxWhispr._state
    vad_active,       \* LinuxWhispr._vad_active
    speech_detected,  \* SileroVAD._speech_detected
    stt_loaded,       \* STTBackend.is_loaded
    recording,        \* AudioCapture._recording
    frames,           \* AudioCapture._frames: the session id of each block
    stream,           \* AudioCapture._stream: 0 is None, else the stream's id
    locked,           \* AudioCapture._lock is held
    overLimit,        \* a callback has read a duration >= MAX_RECORDING_DURATION
    openStreams,      \* the sd.InputStream objects the driver has open
    sess,             \* number of AudioCapture.start() calls that passed the guard
    nstarts,          \* number of _start_recording calls
    cb,               \* the driver's callback thread: [pc, st, fault]
    hk,               \* the hotkey thread's position in _on_dictation_hotkey
    mon,              \* the _vad_monitor threads, by _start_recording call
    wrk,              \* the stop workers spawned by the duration guard: pend[s]
                      \* of them, spawned in session s, have not yet entered
                      \* stop(); fin is the session of the one inside stop()
    pipe,             \* the number of stt-pipeline threads running _process_audio
    handoff,          \* history: the audio.ready events emitted since the last
                      \* start() that opened a session, in order: [sess, wav]
    written,          \* history: blocks appended since that start()
    speech_start_time,  \* SileroVAD._speech_start_time, in 0.1 s (NoTime: None)
    last_speech_time,   \* SileroVAD._last_speech_time, in 0.1 s
    now,                \* time.monotonic() as the VAD reads it, in 0.1 s
    stop_result,        \* what the last should_stop() call returned
    speech_call,        \* history: score and answer of the last is_speech() call
    stop_calls,         \* history: parity of the should_stop() calls made
    start_calls,        \* history: AudioCapture.start() calls made (CaptureSpec)
    handlers,           \* EventBus._handlers: event -> handlers, in registration order
    emit,               \* the emit() call in progress or last returned (BusSpec)
    called,             \* history: list positions emit() called directly, in order
    scheduled,          \* history: list positions emit() put on the event loop
    samples,            \* samples of the buffer handed to _to_wav (WavSpec)
    sample_rate,        \* AudioCapture._sample_rate
    wav_bytes,          \* the container _to_wav returned, or NoWav
    parsed,             \* what a reader of the container reports, or NoWav
    clipboard,          \* content of the system clipboard (InjectSpec)
    preserve_clipboard, \* TextInjector._preserve_clipboard
    inject,             \* the inject() call in progress or last returned
    restore_threads,    \* saved contents the _restore threads still have to write
    inject_calls        \* history: inject() calls made

vars == <<state, vad_active, speech_detected, stt_loaded, recording, frames,
          stream, locked, overLimit, openStreams, sess, nstarts, cb, hk, mon,
          wrk, pipe, handoff, written, speech_start_time, last_speech_time,
          now, stop_result, speech_call, stop_calls, start_calls, handlers, emit, called, scheduled,
          samples, sample_rate, wav_bytes, parsed, clipboard, preserve_clipboard,
          inject, restore_threads, inject_calls>>

ctlVars == <<state, vad_active>>
audioVars == <<recording, frames, stream, locked, overLimit, openStreams, sess>>
histVars == <<handoff, written>>
\* The timestamps of the detector and its clock. The thread model leaves
\* them alone (it takes should_stop()'s comparisons as a free choice, see
\* ShouldStopChoices); the model of SileroVAD on its own, VadSpec, runs them.
\* moreUnitVars are the variables of the other models of one component on
\* its own, which the thread model and VadSpec leave alone.
busVars == <<handlers, emit, called, scheduled>>
wavVars == <<samples, sample_rate, wav_bytes, parsed>>
injectVars == <<clipboard, preserve_clipboard, inject, restore_threads, inject_calls>>
moreUnitVars == <<start_calls, busVars, wavVars, injectVars>>
vadCalls == <<speech_call, stop_calls>>
unitVars == <<speech_start_time, last_speech_time, now, stop_result, vadCalls,
              moreUnitVars>>

Sessions == 1..MaxSessions

\* AppState (app.py)
IDLE == "IDLE"
RECORDING == "RECORDING"
PROCESSING == "PROCESSING"
ERROR == "ERROR"
AppState == {IDLE, RECORDING, PROCESSING, ERROR}

NoThread == [pc |-> "none", sess |-> 0]

\* SileroVAD._speech_start_time is None.
NoTime == -1

\* Two of the events of the bus, and the kinds of handler: a plain function,
\* a plain function that raises an Exception, a coroutine function.
Events == {"state.change", "audio.level"}
HandlerKinds == {"sync", "raises", "async"}

\* constants.py, and the sample width _to_wav sets.
AUDIO_SAMPLE_RATE == 16000
AUDIO_CHANNELS == 1
AUDIO_DTYPE == "int16"
SampleWidth == 2
NoWav == [none |-> TRUE]

\* No inject() call made yet; None in Python.
None == "None"
NoInject == [pc |-> "idle", text |-> "", original_clipboard |-> None,
             failed |-> "none", result |-> None, events |-> <<>>]

\* No emit() call in progress or just returned.
NoEmit == [event |-> "none", i |-> 0, pc |-> "idle"]

Init ==
    /\ state = IDLE
    /\ vad_active = FALSE
    /\ speech_detected = FALSE
    /\ stt_loaded = FALSE
    /\ recording = FALSE
    /\ frames = <<>>
    /\ stream = 0
    /\ locked = FALSE
    /\ overLimit = FALSE
    /\ openStreams = {}
    /\ sess = 0
    /\ nstarts = 0
    /\ cb = [pc |-> "idle", st |-> 0, fault |-> FALSE]
    /\ hk = "idle"
    /\ mon = [m \in Sessions |-> NoThread]
    /\ wrk = [pend |-> [s \in Sessions |-> 0], fin |-> 0]
    /\ pipe = 0
    /\ handoff = <<>>
    /\ written = 0
    /\ speech_start_time = NoTime
    /\ last_speech_time = 0
    /\ now = 0
    /\ stop_result = "none"
    /\ speech_call = [prob |-> 0, result |-> FALSE, flip |-> 0]
    /\ stop_calls = 0
    /\ start_calls = 0
    /\ handlers = [e \in Events |-> <<>>]
    /\ emit = NoEmit
    /\ called = <<>>
    /\ scheduled = <<>>
    /\ samples = 0
    /\ sample_rate = AUDIO_SAMPLE_RATE
    /\ wav_bytes = NoWav
    /\ parsed = NoWav
    /\ clipboard = ""
    /\ preserve_clipboard = TRUE
    /\ inject = NoInject
    /\ restore_threads = {}
    /\ inject_calls = 0

----------------------------------------------------------------------------
\* A start() without its "if self._recording: return" guard: it resets the
\* capture and opens a stream whatever the flag says.
AudioStart_NoGuard(ok) ==
    /\ ~locked
    /\ frames' = <<>>
    /\ recording' = TRUE
    /\ overLimit' = FALSE
    /\ sess' = sess + 1
    /\ stream' = IF ok THEN sess + 1 ELSE stream
    /\ openStreams' = IF ok THEN openStreams \cup {sess + 1} ELSE openStreams
    /\ UNCHANGED locked
    /\ handoff' = <<>>
    /\ written' = 0

\* AudioCapture.start(), under _lock. A call while recording is a no-op; else
\* the frame list, the flag and the start time are reset and the device is
\* opened. ok = FALSE is sd.InputStream raising: the exception leaves start()
\* after the three assignments.
AudioStart(ok) ==
    /\ ~locked
    /\ IF recording
       THEN UNCHANGED <<audioVars, histVars>>
       ELSE /\ frames' = <<>>
            /\ recording' = TRUE
            /\ overLimit' = FALSE
            /\ sess' = sess + 1
            /\ stream' = IF ok THEN sess + 1 ELSE stream
            /\ openStreams' = IF ok THEN openStreams \cup {sess + 1} ELSE openStreams
            /\ UNCHANGED locked
            /\ handoff' = <<>>
            /\ written' = 0

\* A stop() that does not test _recording and always goes on.
StopGoesOn_Always == TRUE

\* AudioCapture.stop(), first part: take _lock, test and clear _recording.
\* StopGoesOn is TRUE when the caller goes on (holding the lock) and FALSE
\* when stop() returns None at once.
StopGoesOn == recording

AudioStopBegin ==
    /\ ~locked
    /\ IF StopGoesOn
       THEN /\ recording' = FALSE
            /\ locked' = TRUE
       ELSE UNCHANGED <<recording, locked>>

\* A stream.stop() that returns while the stream's callback is still running.
StreamQuiesced_NoWait == TRUE

\* self._stream.stop(): PortAudio returns only when the callback of that
\* stream is not running.
StreamQuiesced == cb.pc = "idle" \/ cb.st # stream

\* A stop() that drops the handle without closing the stream.
StreamsAfterClose_Forgotten == openStreams

\* The streams the driver still has open once stop() has run
\* self._stream.stop() and self._stream.close().
StreamsAfterClose == openStreams \ {stream}

\* A stop() that hands off whatever the frame list holds, even nothing.
StopHasAudio_Always == TRUE

\* AudioCapture.stop() with no frame captured returns None.
StopHasAudio == frames # <<>>

\* A stop() that closes the stream but keeps the handle in self._stream.
AudioStopFinish_KeepHandle ==
    /\ stream # 0 => StreamQuiesced
    /\ openStreams' = StreamsAfterClose
    /\ stream' = stream
    /\ locked' = FALSE
    /\ IF StopHasAudio
       THEN /\ handoff' = Append(handoff, [sess |-> sess, wav |-> frames])
            /\ pipe' = pipe + 1
       ELSE UNCHANGED <<handoff, pipe>>

\* AudioCapture.stop(), second part, still under _lock: stop and close the
\* stream and drop the handle; with no frame return None; otherwise
\* concatenate the frames, emit audio.ready (its handler _on_audio_ready
\* starts the stt-pipeline thread) and return the WAV.
AudioStopFinish ==
    /\ stream # 0 => StreamQuiesced
    /\ openStreams' = StreamsAfterClose
    /\ stream' = 0
    /\ locked' = FALSE
    /\ IF StopHasAudio
       THEN /\ handoff' = Append(handoff, [sess |-> sess, wav |-> frames])
            /\ pipe' = pipe + 1
       ELSE UNCHANGED <<handoff, pipe>>

----------------------------------------------------------------------------
\* A hotkey handler that starts a recording whatever the controller state.
HotkeyStart_AnyState ==
    /\ hk = "idle"
    /\ nstarts < MaxSessions
    /\ nstarts' = nstarts + 1
    /\ state' = RECORDING
    /\ speech_detected' = FALSE
    /\ hk' = "start"
    /\ UNCHANGED <<vad_active, stt_loaded, unitVars, audioVars, cb, mon, wrk, pipe, histVars>>

\* _on_dictation_hotkey in IDLE: _start_recording up to vad.reset().
HotkeyStart ==
    /\ hk = "idle"
    /\ state = IDLE
    /\ nstarts < MaxSessions
    /\ nstarts' = nstarts + 1
    /\ state' = RECORDING
    /\ speech_detected' = FALSE
    /\ hk' = "start"
    /\ UNCHANGED <<vad_active, stt_loaded, unitVars, audioVars, cb, mon, wrk, pipe, histVars>>

\* _on_dictation_hotkey in RECORDING: _stop_recording up to the stop() call.
HotkeyStop ==
    /\ hk = "idle"
    /\ state = RECORDING
    /\ vad_active' = FALSE
    /\ state' = PROCESSING
    /\ hk' = "stop"
    /\ UNCHANGED <<speech_detected, stt_loaded, unitVars, audioVars, nstarts, cb, mon, wrk,
                   pipe, histVars>>

\* A handler that answers a press in PROCESSING or ERROR by going to IDLE.
HotkeyIgnored_ToIdle ==
    /\ hk = "idle"
    /\ state \notin {IDLE, RECORDING}
    /\ state' = IDLE
    /\ UNCHANGED <<vad_active, speech_detected, stt_loaded, unitVars, audioVars,
                   nstarts, cb, hk, mon, wrk, pipe, histVars>>

\* _on_dictation_hotkey in any other state: logged and ignored.
HotkeyIgnored ==
    /\ hk = "idle"
    /\ state \notin {IDLE, RECORDING}
    /\ UNCHANGED vars

\* _start_recording from self._audio.start() on: when start() returns, set
\* _vad_active and start the monitor thread; when it raises, the exception
\* leaves _start_recording and the hotkey handler.
HkAudioStart ==
    /\ hk = "start"
    /\ \E ok \in BOOLEAN :
          /\ AudioStart(ok)
          /\ IF ok \/ recording
             THEN /\ vad_active' = TRUE
                  /\ mon' = [mon EXCEPT ![nstarts] = [pc |-> "poll", sess |-> sess']]
             ELSE UNCHANGED <<vad_active, mon>>
    /\ hk' = "idle"
    /\ UNCHANGED <<state, speech_detected, stt_loaded, unitVars, nstarts, cb, wrk, pipe>>

\* _stop_recording on the hotkey thread: self._audio.stop()
HkStopBegin ==
    /\ hk = "stop"
    /\ AudioStopBegin
    /\ hk' = IF StopGoesOn THEN "finish" ELSE "toidle"
    /\ UNCHANGED <<ctlVars, speech_detected, stt_loaded, unitVars, frames, stream, overLimit,
                   openStreams, sess, nstarts, cb, mon, wrk, pipe, histVars>>

HkStopFinish ==
    /\ hk = "finish"
    /\ AudioStopFinish
    /\ hk' = IF StopHasAudio THEN "idle" ELSE "toidle"
    /\ UNCHANGED <<ctlVars, speech_detected, stt_loaded, unitVars, recording, frames,
                   overLimit, sess, nstarts, cb, mon, wrk, written>>

\* _stop_recording: wav_bytes is None, so _set_state(IDLE).
HkToIdle ==
    /\ hk = "toidle"
    /\ state' = IDLE
    /\ hk' = "idle"
    /\ UNCHANGED <<vad_active, speech_detected, stt_loaded, unitVars, audioVars, nstarts, cb,
                   mon, wrk, pipe, histVars>>

----------------------------------------------------------------------------
\* _vad_monitor: the loop condition, evaluated on entry and after each sleep.
MonitorGoesOn == vad_active /\ recording

MonCheck(m) ==
    /\ mon[m].pc = "poll"
    /\ mon' = [mon EXCEPT ![m].pc = IF MonitorGoesOn THEN "body" ELSE "none",
                          ![m].sess = IF MonitorGoesOn THEN @ ELSE 0]
    /\ UNCHANGED <<ctlVars, speech_detected, stt_loaded, unitVars, audioVars, nstarts, cb, hk,
                   wrk, pipe, histVars>>

\* SileroVAD.is_speech: a block scoring at or above the threshold sets
\* _speech_detected; a lower one leaves it.
IsSpeech(positive) == speech_detected \/ positive

\* SileroVAD.should_stop after is_speech scored a block: False when no speech
\* was ever detected, and False right after a positive block (the silence
\* then lasts no time at all, less than VAD_SILENCE_DURATION); otherwise the
\* two comparisons of elapsed times decide.
ShouldStopChoices(positive) ==
    IF IsSpeech(positive) /\ ~positive THEN BOOLEAN ELSE {FALSE}

\* _vad_monitor: one loop body. No frame yet: sleep. Otherwise score the latest
\* frame and ask should_stop(); on True emit audio.silence and enter
\* _stop_recording (clear _vad_active, _set_state(PROCESSING)), else sleep.
MonBody(m) ==
    /\ mon[m].pc = "body"
    /\ IF frames = <<>>
       THEN /\ mon' = [mon EXCEPT ![m].pc = "poll"]
            /\ UNCHANGED <<ctlVars, speech_detected>>
       ELSE \E positive \in BOOLEAN :
            /\ speech_detected' = IsSpeech(positive)
            /\ \E stop \in ShouldStopChoices(positive) :
                 IF stop
                 THEN /\ vad_active' = FALSE
                      /\ state' = PROCESSING
                      /\ mon' = [mon EXCEPT ![m].pc = "stop"]
                 ELSE /\ mon' = [mon EXCEPT ![m].pc = "poll"]
                      /\ UNCHANGED ctlVars
    /\ UNCHANGED <<stt_loaded, unitVars, audioVars, nstarts, cb, hk, wrk, pipe, histVars>>

\* _vad_monitor: self._vad.is_speech(flat) raises (process_chunk raises when
\* the model is not loaded or the inference fails). Nothing in _vad_monitor
\* catches it: the thread ends there, before the detector's flags are set.
MonScoreRaises(m) ==
    /\ mon[m].pc = "body"
    /\ frames # <<>>
    /\ mon' = [mon EXCEPT ![m] = NoThread]
    /\ UNCHANGED <<ctlVars, speech_detected, stt_loaded, unitVars, audioVars, nstarts,
                   cb, hk, wrk, pipe, histVars>>

\* _stop_recording on a monitor thread: self._audio.stop()
MonStopBegin(m) ==
    /\ mon[m].pc = "stop"
    /\ AudioStopBegin
    /\ mon' = [mon EXCEPT ![m].pc = IF StopGoesOn THEN "finish" ELSE "toidle"]
    /\ UNCHANGED <<ctlVars, speech_detected, stt_loaded, unitVars, frames, stream, overLimit,
                   openStreams, sess, nstarts, cb, hk, wrk, pipe, histVars>>

MonStopFinish(m) ==
    /\ mon[m].pc = "finish"
    /\ AudioStopFinish
    /\ mon' = IF StopHasAudio THEN [mon EXCEPT ![m] = NoThread]
                              ELSE [mon EXCEPT ![m].pc = "toidle"]
    /\ UNCHANGED <<ctlVars, speech_detected, stt_loaded, unitVars, recording, frames,
                   overLimit, sess, nstarts, cb, hk, wrk, written>>

MonToIdle(m) ==
    /\ mon[m].pc = "toidle"
    /\ state' = IDLE
    /\ mon' = [mon EXCEPT ![m] = NoThread]
    /\ UNCHANGED <<vad_active, speech_detected, stt_loaded, unitVars, audioVars, nstarts, cb,
                   hk, wrk, pipe, histVars>>

----------------------------------------------------------------------------
\* self.duration as a callback may read it: the clock only advances, so once
\* a callback of this session has read a duration at or beyond
\* MAX_RECORDING_DURATION every later one does.
AtLimitChoices == IF overLimit THEN {TRUE} ELSE BOOLEAN

\* _audio_callback: which way the callback goes after reading _recording and
\* self.duration (atLimit: duration >= MAX_RECORDING_DURATION).
CallbackBranch(atLimit) ==
    IF ~recording THEN "return"
    ELSE IF atLimit THEN "guard"
    ELSE "append"

RECURSIVE SumTo(_, _)
SumTo(f, n) == IF n = 0 THEN 0 ELSE f[n] + SumTo(f, n - 1)

\* Stop workers alive: started and not yet returned from stop().
WorkersAlive == SumTo(wrk.pend, MaxSessions) + (IF wrk.fin = 0 THEN 0 ELSE 1)

\* The driver invokes _audio_callback for a block of an open stream, with a
\* status that reports a fault (fault = TRUE) or none; a fault is logged. The
\* callback runs up to the append: it returns when not recording, and at the
\* duration limit it starts a thread running self.stop and returns.
CbCheck ==
    /\ cb.pc = "idle"
    /\ \E s \in openStreams, atLimit \in AtLimitChoices, fault \in BOOLEAN :
         CASE CallbackBranch(atLimit) = "return" ->
              /\ UNCHANGED <<cb, wrk, overLimit>>
         [] CallbackBranch(atLimit) = "guard" ->
              /\ WorkersAlive < MaxWorkers
              /\ wrk' = [wrk EXCEPT !.pend[s] = @ + 1]
              /\ overLimit' = TRUE
              /\ UNCHANGED cb
         [] OTHER ->
              /\ Len(frames) < MaxFrames
              /\ cb' = [pc |-> "append", st |-> s, fault |-> fault]
              /\ UNCHANGED <<wrk, overLimit>>
    /\ UNCHANGED <<ctlVars, speech_detected, stt_loaded, unitVars, recording, frames, stream,
                   locked, openStreams, sess, nstarts, hk, mon, pipe, histVars>>

\* _audio_callback: self._frames.append(indata.copy()), then audio.level.
CbAppend ==
    /\ cb.pc = "append"
    /\ frames' = Append(frames, cb.st)
    /\ written' = written + 1
    /\ cb' = [pc |-> "idle", st |-> 0, fault |-> FALSE]
    /\ UNCHANGED <<ctlVars, speech_detected, stt_loaded, unitVars, recording, stream, locked,
                   overLimit, openStreams, sess, nstarts, hk, mon, wrk, pipe,
                   handoff>>

\* A duration-guard worker spawned in session s, threading.Thread(target=
\* self.stop), enters stop().
WrkStopBegin(s) ==
    /\ wrk.pend[s] > 0
    /\ AudioStopBegin
    /\ wrk' = [pend |-> [wrk.pend EXCEPT ![s] = @ - 1],
               fin |-> IF StopGoesOn THEN s ELSE wrk.fin]
    /\ UNCHANGED <<ctlVars, speech_detected, stt_loaded, unitVars, frames, stream, overLimit,
                   openStreams, sess, nstarts, cb, hk, mon, pipe, histVars>>

WrkStopFinish ==
    /\ wrk.fin # 0
    /\ AudioStopFinish
    /\ wrk' = [wrk EXCEPT !.fin = 0]
    /\ UNCHANGED <<ctlVars, speech_detected, stt_loaded, unitVars, recording, frames,
                   overLimit, sess, nstarts, cb, hk, mon, written>>

----------------------------------------------------------------------------
\* The outcomes of one _process_audio run. "load_raised": self._stt.load()
\* raises on first use, outside any try, and the thread ends there.
\* "stt_failed": transcribe() raises. "empty": the text is blank.
\* "post_failed": snippet expansion, refinement or injection raises or fails,
\* or the history write raises (each is caught and logged). "ok": no failure.
PipeOutcomes ==
    (IF stt_loaded THEN {} ELSE {"load_raised"})
        \cup {"stt_failed", "empty", "post_failed", "ok"}

\* The state _process_audio leaves behind: none set when load() raised, ERROR
\* from the except branch of transcribe, IDLE on every other path.
StateAfterPipeline(outcome) ==
    CASE outcome = "load_raised" -> state
      [] outcome = "stt_failed" -> ERROR
      [] OTHER -> IDLE

\* _process_audio on one stt-pipeline thread. The thread shares only _state
\* and the STT backend with the other threads, and writes _state once, as
\* its last act.
PipeRun ==
    /\ pipe > 0
    /\ \E outcome \in PipeOutcomes :
          /\ stt_loaded' = (stt_loaded \/ outcome # "load_raised")
          /\ state' = StateAfterPipeline(outcome)
          /\ pipe' = pipe - 1
    /\ UNCHANGED <<vad_active, speech_detected, unitVars, audioVars, nstarts, cb,
                   hk, mon, wrk, histVars>>

----------------------------------------------------------------------------
Next ==
    \/ HotkeyStart
    \/ HotkeyStop
    \/ HotkeyIgnored
    \/ HkAudioStart
    \/ HkStopBegin
    \/ HkStopFinish
    \/ HkToIdle
    \/ \E m \in Sessions : MonCheck(m)
    \/ \E m \in Sessions : MonBody(m)
    \/ \E m \in Sessions : MonScoreRaises(m)
    \/ \E m \in Sessions : MonStopBegin(m)
    \/ \E m \in Sessions : MonStopFinish(m)
    \/ \E m \in Sessions : MonToIdle(m)
    \/ CbCheck
    \/ CbAppend
    \/ \E s \in Sessions : WrkStopBegin(s)
    \/ WrkStopFinish
    \/ PipeRun

Spec == Init /\ [][Next]_vars

----------------------------------------------------------------------------
\* AudioCapture on its own (audio/capture.py): start() and stop() called in
\* any order by one caller, as the unit tests do, with the driver callback
\* and the duration-guard workers running beside it.
captureFrame == <<ctlVars, speech_detected, stt_loaded, speech_start_time,
                  last_speech_time, now, stop_result, vadCalls, nstarts, cb, hk, mon, wrk,
                  busVars, wavVars, injectVars>>

\* A call of start(). A session is opened only while the model has one left.
CapStart ==
    /\ start_calls < MaxCalls
    /\ recording \/ sess < MaxSessions
    /\ \E ok \in BOOLEAN : AudioStart(ok)
    /\ start_calls' = start_calls + 1
    /\ UNCHANGED <<captureFrame, pipe>>

\* A call of stop() by the caller, up to the _recording test.
CapStopBegin ==
    /\ AudioStopBegin
    /\ UNCHANGED <<captureFrame, frames, stream, overLimit, openStreams, sess, pipe,
                   histVars, start_calls>>

\* The caller's stop() from the _recording test to its return.
CapStopFinish ==
    /\ locked
    /\ wrk.fin = 0
    /\ AudioStopFinish
    /\ UNCHANGED <<captureFrame, recording, frames, overLimit, sess, written,
                   start_calls>>

CaptureNext ==
    \/ CapStart
    \/ CapStopBegin
    \/ CapStopFinish
    \/ CbCheck
    \/ CbAppend
    \/ \E s \in Sessions : WrkStopBegin(s)
    \/ WrkStopFinish

CaptureSpec == Init /\ [][CaptureNext]_vars

----------------------------------------------------------------------------
\* EventBus on its own (events.py): handlers are registered and removed
\* between emits, as the components do at set-up, and emit() walks the list
\* of the event one handler at a time.
busFrame == <<ctlVars, speech_detected, stt_loaded, audioVars, nstarts, cb, hk, mon,
              wrk, pipe, histVars, speech_start_time, last_speech_time, now,
              stop_result, vadCalls, start_calls, wavVars, injectVars>>

EmitRunning == emit.pc = "loop"

\* on(event, handler): append, duplicates kept.
on(event, handler) ==
    /\ ~EmitRunning
    /\ Len(handlers[event]) < MaxHandlers
    /\ handlers' = [handlers EXCEPT ![event] = Append(@, handler)]
    /\ emit' = NoEmit
    /\ UNCHANGED <<called, scheduled, busFrame>>

\* list.remove(handler): the list without its first element equal to handler.
RECURSIVE RemoveFirst(_, _)
RemoveFirst(list, handler) ==
    IF list = <<>> THEN <<>>
    ELSE IF Head(list) = handler THEN Tail(list)
    ELSE <<Head(list)>> \o RemoveFirst(Tail(list), handler)

\* off(event, handler): remove one registration; ValueError is swallowed.
off(event, handler) ==
    /\ ~EmitRunning
    /\ handlers' = [handlers EXCEPT ![event] = RemoveFirst(@, handler)]
    /\ handlers' # handlers
    /\ emit' = NoEmit
    /\ UNCHANGED <<called, scheduled, busFrame>>

\* emit(event) up to the loop: with no handlers it returns at once.
emit_begin(event) ==
    /\ ~EmitRunning
    /\ emit' = [event |-> event, i |-> 1,
                pc |-> IF handlers[event] = <<>> THEN "returned" ELSE "loop"]
    /\ called' = <<>>
    /\ scheduled' = <<>>
    /\ UNCHANGED <<handlers, busFrame>>

\* Where emit() goes on after the handler at position emit.i: to the next
\* handler, or out of the loop. Without the try the exception of a raising
\* handler would leave emit().
AfterHandler_NoTry(handler) ==
    IF handler = "raises" THEN [emit EXCEPT !.pc = "raised"]
    ELSE [emit EXCEPT !.i = @ + 1,
                      !.pc = IF emit.i = Len(handlers[emit.event])
                             THEN "returned" ELSE "loop"]

\* "except Exception" takes what the handler raised; the loop goes on.
AfterHandler(handler) ==
    [emit EXCEPT !.i = @ + 1,
                 !.pc = IF emit.i = Len(handlers[emit.event])
                        THEN "returned" ELSE "loop"]

\* One turn of "for handler in handlers": a coroutine function is put on
\* the event loop when one is running and only warned about otherwise; any
\* other handler is called.
emit_step ==
    /\ EmitRunning
    /\ LET handler == handlers[emit.event][emit.i] IN
         /\ IF handler = "async"
            THEN /\ \E loop_running \in BOOLEAN :
                        scheduled' = IF loop_running THEN Append(scheduled, emit.i)
                                     ELSE scheduled
                 /\ UNCHANGED called
            ELSE /\ called' = Append(called, emit.i)
                 /\ UNCHANGED scheduled
         /\ emit' = AfterHandler(handler)
    /\ UNCHANGED <<handlers, busFrame>>

BusNext ==
    \/ \E event \in Events, handler \in HandlerKinds : on(event, handler)
    \/ \E event \in Events, handler \in HandlerKinds : off(event, handler)
    \/ \E event \in Events : emit_begin(event)
    \/ emit_step

BusSpec == Init /\ [][BusNext]_vars

----------------------------------------------------------------------------
\* AudioCapture._to_wav on its own (audio/capture.py), with the reader of
\* the container that the unit test and the transcriber use (wave.open).
wavFrame == <<ctlVars, speech_detected, stt_loaded, audioVars, nstarts, cb, hk, mon,
              wrk, pipe, histVars, speech_start_time, last_speech_time, now,
              stop_result, vadCalls, start_calls, busVars, injectVars>>

SampleRates == {8000, AUDIO_SAMPLE_RATE, 44100, 48000}
SampleCounts(rate) == (0 .. MaxSamples) \cup {n * rate : n \in 1 .. MaxSeconds}

\* Bytes of one item of a numpy dtype.
itemsize(dtype) ==
    CASE dtype = "int8" -> 1
      [] dtype = "int16" -> 2
      [] dtype = "float32" -> 4

\* tobytes() of a buffer of one byte per sample.
tobytes_OneByte(count) == count

\* audio_data.tobytes(): the length of the (count, AUDIO_CHANNELS) buffer.
tobytes(count) == count * AUDIO_CHANNELS * itemsize(AUDIO_DTYPE)

\* _to_wav: the header fields the setters give, and the data chunk.
to_wav(count, rate) ==
    [nchannels |-> AUDIO_CHANNELS,
     bitspersample |-> SampleWidth * 8,
     framerate |-> rate,
     datasize |-> tobytes(count)]

\* wave.open(..., "rb"): the sample width from the bits per sample, the
\* frame count from the size of the data chunk and the frame size.
wave_read(wav) ==
    LET sampwidth == (wav.bitspersample + 7) \div 8
        framesize == wav.nchannels * sampwidth
    IN  [nchannels |-> wav.nchannels,
         sampwidth |-> sampwidth,
         framerate |-> wav.framerate,
         nframes |-> wav.datasize \div framesize]

\* A capture with some sample rate ends with some number of samples.
WavBuffer ==
    /\ \E rate \in SampleRates : \E count \in SampleCounts(rate) :
          /\ sample_rate' = rate
          /\ samples' = count
    /\ wav_bytes' = NoWav
    /\ parsed' = NoWav
    /\ UNCHANGED wavFrame

WavSerialize ==
    /\ wav_bytes = NoWav
    /\ wav_bytes' = to_wav(samples, sample_rate)
    /\ UNCHANGED <<samples, sample_rate, parsed, wavFrame>>

WavParse ==
    /\ wav_bytes # NoWav
    /\ parsed = NoWav
    /\ parsed' = wave_read(wav_bytes)
    /\ UNCHANGED <<samples, sample_rate, wav_bytes, wavFrame>>

WavNext ==
    \/ WavBuffer
    \/ WavSerialize
    \/ WavParse

WavSpec == Init /\ [][WavNext]_vars

----------------------------------------------------------------------------
\* TextInjector on its own (output/injector.py), with the clipboard it
\* writes and the _restore threads it starts.
injectFrame == <<ctlVars, speech_detected, stt_loaded, audioVars, nstarts, cb, hk,
                 mon, wrk, pipe, histVars, speech_start_time, last_speech_time, now,
                 stop_result, vadCalls, start_calls, busVars, wavVars>>

Texts == {"", "hello", "world"}
Contents == {"", "old"}

\* TextInjector(preserve_clipboard=...): True by default, the application
\* passes its configuration.
TextInjectorInit(preserve) ==
    /\ inject_calls = 0
    /\ inject.pc = "idle"
    /\ preserve # preserve_clipboard
    /\ preserve_clipboard' = preserve
    /\ UNCHANGED <<clipboard, inject, restore_threads, inject_calls, injectFrame>>

\* What the user copied before the first inject().
UserCopy(content) ==
    /\ inject_calls = 0
    /\ inject.pc = "idle"
    /\ content # clipboard
    /\ clipboard' = content
    /\ UNCHANGED <<preserve_clipboard, inject, restore_threads, inject_calls,
                   injectFrame>>

\* Clipboard.read(): the content ("" when nothing is copied), None on failure.
ClipboardRead == {clipboard, None}

\* inject(text) up to the clipboard write: empty text returns False; the
\* clipboard is read only when it is to be preserved.
inject_begin(text) ==
    /\ inject.pc \in {"idle", "returned"}
    /\ inject_calls < MaxInjects
    /\ inject_calls' = inject_calls + 1
    /\ IF text = ""
       THEN inject' = [NoInject EXCEPT !.pc = "returned", !.result = FALSE,
                                       !.failed = "empty"]
       ELSE \E original \in (IF preserve_clipboard THEN ClipboardRead ELSE {None}) :
               inject' = [NoInject EXCEPT !.pc = "write", !.text = text,
                                          !.original_clipboard = original]
    /\ UNCHANGED <<clipboard, preserve_clipboard, restore_threads, injectFrame>>

\* self._clipboard.write(text): on failure inject.error and False.
inject_write(ok) ==
    /\ inject.pc = "write"
    /\ IF ok
       THEN /\ clipboard' = inject.text
            /\ inject' = [inject EXCEPT !.pc = "paste"]
       ELSE /\ inject' = [inject EXCEPT !.pc = "returned", !.result = FALSE,
                                        !.failed = "write",
                                        !.events = <<"inject.error">>]
            /\ UNCHANGED clipboard
    /\ UNCHANGED <<preserve_clipboard, restore_threads, inject_calls, injectFrame>>

\* From _simulate_paste() to the return: inject.error or inject.complete,
\* and the _restore thread whenever a saved content is at hand.
inject_paste(success) ==
    /\ inject.pc = "paste"
    /\ inject' = [inject EXCEPT !.pc = "returned", !.result = success,
                                !.failed = IF success THEN "none" ELSE "paste",
                                !.events = IF success THEN <<"inject.complete">>
                                           ELSE <<"inject.error">>]
    /\ restore_threads' =
          IF preserve_clipboard /\ inject.original_clipboard # None
          THEN restore_threads \cup {inject.original_clipboard}
          ELSE restore_threads
    /\ UNCHANGED <<clipboard, preserve_clipboard, inject_calls, injectFrame>>

\* A _restore thread after its sleep: it writes the saved content back.
restore(original, ok) ==
    /\ original \in restore_threads
    /\ restore_threads' = restore_threads \ {original}
    /\ clipboard' = IF ok THEN original ELSE clipboard
    /\ UNCHANGED <<preserve_clipboard, inject, inject_calls, injectFrame>>

InjectNext ==
    \/ \E preserve \in BOOLEAN : TextInjectorInit(preserve)
    \/ \E content \in Contents : UserCopy(content)
    \/ \E text \in Texts : inject_begin(text)
    \/ \E ok \in BOOLEAN : inject_write(ok)
    \/ \E success \in BOOLEAN : inject_paste(success)
    \/ \E original \in Contents \cup Texts, ok \in BOOLEAN : restore(original, ok)

InjectSpec == Init /\ [][InjectNext]_vars

----------------------------------------------------------------------------
\* SileroVAD on its own (audio/vad.py): any sequence of reset(), is_speech()
\* and should_stop() calls under a clock that never goes back. Times are in
\* tenths of a second and scores in tenths.
VAD_THRESHOLD == 5
VAD_SILENCE_DURATION == 20
VAD_MIN_SPEECH_DURATION == 3

\* The scores process_chunk may return for a block: below, at and above the
\* threshold.
Probs == {0, 4, 5, 9}

\* What the detector's methods neither read nor write.
progVars == <<state, vad_active, stt_loaded, audioVars, nstarts, cb, hk, mon, wrk,
              pipe, histVars, moreUnitVars>>

\* SileroVAD.reset (the hidden LSTM state is not modelled).
reset ==
    /\ speech_detected' = FALSE
    /\ speech_start_time' = NoTime
    /\ last_speech_time' = 0
    /\ UNCHANGED <<now, stop_result, vadCalls, progVars>>

\* An is_speech that notes the start of speech but refreshes the time of the
\* last speech only from the second positive block on.
is_speech_StaleLast(prob) ==
    /\ IF prob >= VAD_THRESHOLD
       THEN /\ speech_detected' = TRUE
            /\ speech_start_time' = IF ~speech_detected THEN now ELSE speech_start_time
            /\ last_speech_time' = IF ~speech_detected THEN last_speech_time ELSE now
       ELSE UNCHANGED <<speech_detected, speech_start_time, last_speech_time>>
    /\ speech_call' = [prob |-> prob, result |-> prob >= VAD_THRESHOLD,
                       flip |-> 1 - speech_call.flip]
    /\ UNCHANGED <<now, stop_result, stop_calls, progVars>>

\* An is_speech that takes a sub-threshold block as the end of the speech.
is_speech_SilenceClears(prob) ==
    /\ IF prob >= VAD_THRESHOLD
       THEN /\ speech_detected' = TRUE
            /\ speech_start_time' = IF ~speech_detected THEN now ELSE speech_start_time
            /\ last_speech_time' = now
       ELSE /\ speech_detected' = FALSE
            /\ UNCHANGED <<speech_start_time, last_speech_time>>
    /\ speech_call' = [prob |-> prob, result |-> prob >= VAD_THRESHOLD,
                       flip |-> 1 - speech_call.flip]
    /\ UNCHANGED <<now, stop_result, stop_calls, progVars>>

\* SileroVAD.is_speech on a block that process_chunk scored prob; now is the
\* single clock reading the method takes.
is_speech(prob) ==
    /\ IF prob >= VAD_THRESHOLD
       THEN /\ speech_detected' = TRUE
            /\ speech_start_time' = IF ~speech_detected THEN now ELSE speech_start_time
            /\ last_speech_time' = now
       ELSE UNCHANGED <<speech_detected, speech_start_time, last_speech_time>>
    /\ speech_call' = [prob |-> prob, result |-> prob >= VAD_THRESHOLD,
                       flip |-> 1 - speech_call.flip]
    /\ UNCHANGED <<now, stop_result, stop_calls, progVars>>

\* A should_stop without the test of the speech duration.
should_stop_NoMinSpeech ==
    IF ~speech_detected THEN FALSE
    ELSE IF speech_start_time = NoTime THEN FALSE
    ELSE now - last_speech_time >= VAD_SILENCE_DURATION

\* SileroVAD.should_stop: the value returned at clock reading now.
should_stop ==
    IF ~speech_detected THEN FALSE
    ELSE IF speech_start_time = NoTime THEN FALSE
    ELSE IF last_speech_time - speech_start_time < VAD_MIN_SPEECH_DURATION THEN FALSE
    ELSE now - last_speech_time >= VAD_SILENCE_DURATION

\* A should_stop that forgets the speech once it has answered True.
should_stop_call_Consumes ==
    /\ stop_result' = IF should_stop THEN "True" ELSE "False"
    /\ stop_calls' = 1 - stop_calls
    /\ speech_detected' = IF should_stop THEN FALSE ELSE speech_detected
    /\ UNCHANGED <<speech_start_time, last_speech_time, now, speech_call, progVars>>

\* A call of should_stop(); stop_result keeps what it returned.
should_stop_call ==
    /\ stop_result' = IF should_stop THEN "True" ELSE "False"
    /\ stop_calls' = 1 - stop_calls
    /\ UNCHANGED <<speech_detected, speech_start_time, last_speech_time, now,
                   speech_call, progVars>>

\* time.monotonic() advances between two calls.
Tick ==
    /\ now < MaxClock
    /\ now' = now + 1
    /\ UNCHANGED <<speech_detected, speech_start_time, last_speech_time, stop_result,
                   vadCalls, progVars>>

VadNext ==
    \/ reset
    \/ \E prob \in Probs : is_speech(prob)
    \/ should_stop_call
    \/ Tick

VadSpec == Init /\ [][VadNext]_vars

----------------------------------------------------------------------------
\* Session s has been stopped: stop() has cleared the _recording flag that
\* the start() of session s set. start() opens session sess + 1 only when the
\* flag is clear, so every session before the current one has been stopped.
Stopped(s) == s >= 1 /\ (s < sess \/ (s = sess /\ ~recording))

\* No thread of the program is running and the device is closed: only a
\* hotkey press can happen next.
ProgramQuiet ==
    /\ hk = "idle"
    /\ \A m \in Sessions : mon[m].pc = "none"
    /\ WorkersAlive = 0
    /\ pipe = 0
    /\ cb.pc = "idle"
    /\ openStreams = {}

\* In a quiet state the controller state can only be changed by a hotkey
\* press, and a press in PROCESSING or ERROR is ignored.
QuietTrapStays ==
    [][(ProgramQuiet /\ state \in {PROCESSING, ERROR}) => UNCHANGED vars]_vars

----------------------------------------------------------------------------
\* A step that opens no stream and starts no capture session.
StartsNoSession == sess' = sess /\ openStreams' \subseteq openStreams

\* C1: at most one recording session exists at a time. The driver never has
\* two input streams open, an open stream is the one of the current session,
\* and a hotkey press taken in RECORDING goes to _stop_recording: it opens no
\* stream and starts no session.
C1_SingleRecordingSession ==
    /\ [](Cardinality(openStreams) <= 1 /\ openStreams \subseteq {sess})
    /\ [][(hk = "idle" /\ hk' # "idle")
            => \/ state = IDLE /\ hk' = "start"
               \/ state = RECORDING /\ hk' = "stop"]_vars
    /\ [][(hk \in {"stop", "finish", "toidle"}) => StartsNoSession]_vars

\* A second press arrived during a recording and was taken as a stop.
C1_Witness == hk = "stop" /\ recording /\ openStreams = {sess} /\ nstarts = 1

\* C2 (as claimed): ERROR is never terminal: whenever the controller is in
\* ERROR some thread is still running that can bring it back to IDLE.
C2_ErrorReturnsToIdle == state = ERROR => ~ProgramQuiet

\* C3 (as claimed): a session that entered PROCESSING leaves it: the
\* controller is never in PROCESSING with no thread left to move it on.
C3_ProcessingReachesIdle == state = PROCESSING => ~ProgramQuiet

\* C4 (as claimed): whatever stops the capture (manual press, VAD auto-stop or
\* duration guard), the controller is in PROCESSING when the capture stops.
C4_StopEntersProcessing == [][(recording /\ ~recording') => state' = PROCESSING]_vars

----------------------------------------------------------------------------
\* The number of threads inside stop() past the _recording test.
Finalizers ==
    (IF hk = "finish" THEN 1 ELSE 0)
        + Cardinality({m \in Sessions : mon[m].pc = "finish"})
        + (IF wrk.fin = 0 THEN 0 ELSE 1)

\* C5: a session that reached the duration limit stops itself exactly once.
\* While it is still recording past the limit a stop worker of that session
\* is on its way; at most one thread at a time finalizes; the session gets at
\* most one audio.ready, however many workers the callbacks spawned; and once
\* stop() has returned no input stream is open.
C5_GuardStopsOnce ==
    /\ (overLimit /\ recording) => wrk.pend[sess] >= 1
    /\ Finalizers = (IF locked THEN 1 ELSE 0)
    /\ Len(handoff) <= 1
    /\ \A i \in DOMAIN handoff : handoff[i].sess = sess
    /\ (~recording /\ ~locked) => (stream = 0 /\ openStreams = {})

\* The guard's stop has finalized and handed off the session (the controller
\* is still in RECORDING) while another worker of the session has yet to
\* enter stop().
C5_Witness ==
    /\ overLimit /\ ~recording /\ ~locked
    /\ state = RECORDING
    /\ Len(handoff) = 1
    /\ wrk.pend[sess] >= 1

\* C6 (as claimed): the monitor of a session that another path has already
\* stopped never enters the stop transition (_stop_recording).
C6_MonitorNoRedundantStop ==
    [][\A m \in Sessions :
          (mon[m].pc = "body" /\ mon'[m].pc = "stop") => ~Stopped(mon[m].sess)]_vars

\* C7 (as claimed): a monitor that sleeps while its session is stopped exits
\* at its next wake: it never goes back into the loop body.
C7_StaleMonitorExits ==
    [][\A m \in Sessions :
          (mon[m].pc = "poll" /\ Stopped(mon[m].sess))
              => mon'[m].pc \in {"poll", "none"}]_vars

\* A thread inside _stop_recording or stop() leaves the position pc.
HkLeaves(pc) == hk = pc /\ hk' # pc
MonLeaves(m, pc) == mon[m].pc = pc /\ mon'[m].pc # pc

\* C8: a stop with nothing to hand off. audio.ready is emitted, and the
\* pipeline started, only by a finalizing stop() that holds at least one
\* frame; a stop() called while not recording, or finding no frame, emits
\* nothing and starts no pipeline, and the _stop_recording that called it
\* sets the controller to IDLE as its next step.
C8_EmptyStopNoHandoff ==
    [][/\ (Len(handoff') > Len(handoff) \/ pipe' > pipe)
            => (locked /\ ~locked' /\ frames # <<>>
                /\ Len(handoff') = Len(handoff) + 1 /\ pipe' = pipe + 1)
       /\ (HkLeaves("stop") /\ ~recording) \/ (HkLeaves("finish") /\ frames = <<>>)
            => (hk' = "toidle" /\ UNCHANGED <<handoff, pipe>>)
       /\ \A m \in Sessions :
            (MonLeaves(m, "stop") /\ ~recording) \/ (MonLeaves(m, "finish") /\ frames = <<>>)
               => (mon'[m].pc = "toidle" /\ UNCHANGED <<handoff, pipe>>)
       /\ HkLeaves("toidle") => (state' = IDLE /\ UNCHANGED <<handoff, pipe>>)
       /\ \A m \in Sessions :
            MonLeaves(m, "toidle") => (state' = IDLE /\ UNCHANGED <<handoff, pipe>>)]_vars

\* A manual stop of a session that captured no block: stop() has returned
\* None, nothing was handed off, and _stop_recording is about to set IDLE.
C8_Witness ==
    /\ hk = "toidle" /\ state = PROCESSING
    /\ sess >= 1 /\ ~recording /\ ~locked
    /\ frames = <<>> /\ handoff = <<>> /\ pipe = 0

\* C9: an audio.ready of a session is emitted only after the session's stream
\* was closed, and the buffer it carries is the finalized frame list: every
\* block appended during the session, each of that session's stream, and
\* nothing else.
C9_CloseFinalizeHandoff ==
    \A i \in DOMAIN handoff :
        /\ handoff[i].sess \notin openStreams
        /\ stream # handoff[i].sess
        /\ Len(handoff[i].wav) = written
        /\ handoff[i].wav = frames
        /\ \A k \in DOMAIN handoff[i].wav : handoff[i].wav[k] = handoff[i].sess

\* A session whose captured block was handed off to a pipeline thread.
C9_Witness ==
    /\ handoff # <<>>
    /\ Len(handoff[1].wav) >= 1
    /\ written >= 1
    /\ pipe > 0

\* C10 (as claimed): a callback that runs concurrently with stop(), that is,
\* after stop() cleared _recording and before it returned, appends nothing.
C10_ConcurrentCallbackRejected ==
    [][(locked /\ ~recording) => frames' = frames]_vars

\* C10 (amended): once stop() has finalized a session, its frame list never
\* changes; a callback that starts after stop() cleared _recording is
\* rejected; and no callback is in flight once stop() has returned.
C10_NoAppendAfterFinalize ==
    /\ [][(~recording /\ ~locked /\ sess' = sess)
            => (frames' = frames /\ written' = written)]_vars
    /\ [][(~recording /\ cb.pc = "idle") => cb'.pc = "idle"]_vars
    /\ []((~recording /\ ~locked) => cb.pc = "idle")

\* stop() has cleared _recording and holds the lock while a callback that
\* passed the _recording test is about to append its block.
C10_Witness == cb.pc = "append" /\ locked /\ ~recording /\ cb.st = sess

----------------------------------------------------------------------------
\* The hotkey thread leaves _start_recording with no stream opened by a
\* start() that found the capture not recording: opening the device failed.
OpenFailed == hk = "start" /\ hk' = "idle" /\ ~recording /\ openStreams' = openStreams

\* C11 (as claimed): a failed device open aborts the IDLE -> RECORDING
\* transition with no partial state: the controller is in IDLE, the capture
\* is not marked recording and no silence monitor was started.
C11_OpenFailureNoPartialState ==
    [][OpenFailed => (state' = IDLE /\ ~recording' /\ mon' = mon)]_vars

\* C12 (as claimed): VAD state never leaks across sessions: as long as no
\* block of the session being recorded has been captured, and so none of its
\* blocks can have been scored, the detector is in the state reset() left,
\* with no speech detected.
C12_VadFreshAtSessionStart == (recording /\ frames = <<>>) => ~speech_detected

\* C13: in every state of the detector reached by reset(), is_speech() and
\* should_stop() calls under a non-decreasing clock, speech_detected implies
\* that speech_start_time is set and last_speech_time >= speech_start_time;
\* and should_stop() is, and returns, false whenever speech_detected is false.
C13_VadStateInvariant ==
    /\ [](speech_detected
            => (speech_start_time # NoTime /\ last_speech_time >= speech_start_time))
    /\ [](~speech_detected => ~should_stop)
    /\ [][(stop_result' # stop_result /\ ~speech_detected) => stop_result' = "False"]_vars

\* Speech that began after the clock's origin and went on for a while, with a
\* should_stop() call that answered False.
C13_Witness ==
    /\ speech_detected
    /\ speech_start_time > 0
    /\ last_speech_time > speech_start_time
    /\ stop_result = "False"

\* The condition C14 gives for should_stop() to answer true.
StopCondition ==
    /\ speech_detected
    /\ last_speech_time - speech_start_time >= VAD_MIN_SPEECH_DURATION
    /\ now - last_speech_time >= VAD_SILENCE_DURATION

\* C14: should_stop() is true exactly when speech was detected since the last
\* reset, it lasted at least min_speech_duration and the silence since the
\* last speech lasts at least silence_duration. With 0.3 s and 2.0 s, speech
\* from t = 0 to t = 0.5 gives false at t = 2.0 and true at t = 2.5.
C14_ShouldStopIff ==
    /\ [](should_stop <=> StopCondition)
    /\ [][stop_result' # stop_result
            => stop_result' = (IF StopCondition THEN "True" ELSE "False")]_vars
    /\ []((speech_detected /\ speech_start_time = 0 /\ last_speech_time = 5)
            => /\ now = 20 => ~should_stop
               /\ now = 25 => should_stop)

\* Speech from t = 0 to t = 0.5, and should_stop() asked at t = 2.5 said True.
C14_Witness ==
    /\ speech_detected /\ speech_start_time = 0 /\ last_speech_time = 5
    /\ now = 25
    /\ stop_result = "True"

\* C15 (as claimed): once a session's audio has been handed off and stop()
\* has returned, a trigger starts a new session, that is, finds the
\* controller in IDLE, whether or not the pipeline run of the session has
\* finished.
C15_StartableAfterHandoff ==
    (hk = "idle" /\ handoff # <<>> /\ ~recording /\ ~locked /\ pipe > 0)
        => state = IDLE

\* C16: a trigger delivered in PROCESSING is ignored. While the controller is
\* in PROCESSING and the hotkey thread is idle, the hotkey thread enters
\* neither _start_recording nor _stop_recording (the only places where it
\* emits an event), and every step that changes anything (controller,
\* capture, VAD or monitor state) is a step of another thread: of a pipeline
\* thread, a monitor, the driver callback or a stop worker.
C16_TriggerIgnoredInProcessing ==
    [][(state = PROCESSING /\ hk = "idle")
         => /\ hk' = "idle"
            /\ \/ UNCHANGED vars
               \/ pipe' # pipe
               \/ mon' # mon
               \/ cb' # cb
               \/ wrk' # wrk]_vars

\* The controller is in PROCESSING with the pipeline of the session running
\* and the hotkey thread free to deliver a press.
C16_Witness ==
    /\ state = PROCESSING /\ hk = "idle"
    /\ pipe > 0 /\ handoff # <<>>
    /\ ~recording /\ ~locked

\* C17 (as claimed): the frame list is read only after the stream has been
\* closed: a monitor runs its loop body, which reads self._audio._frames,
\* only when the driver has no stream open.
C17_ReadOnlyAfterClose ==
    [][\A m \in Sessions :
          (mon[m].pc = "body" /\ mon'[m].pc # "body") => openStreams = {}]_vars

\* Monitor m has passed the loop condition and finds a frame to score: its
\* next step is self._vad.is_speech(flat), which writes the VAD state.
Scoring(m) == mon[m].pc = "body" /\ frames # <<>>

\* C18 (as claimed): the VAD state has a single writer, so no two contexts
\* mutate it concurrently: at most one monitor at a time is about to call
\* is_speech(), and the trigger thread runs reset() only when no monitor is
\* about to call it.
C18_SingleVadWriter ==
    /\ [](Cardinality({m \in Sessions : Scoring(m)}) <= 1)
    /\ [][(hk = "idle" /\ hk' = "start") => \A m \in Sessions : ~Scoring(m)]_vars

\* C19: the input device is exclusively owned and fully released. At most
\* one input stream is open, and it is the one whose handle AudioCapture
\* holds; a stop() that went past the _recording test returns with no stream
\* open and no handle held; and whenever the capture is neither recording
\* nor inside stop(), which is when start() opens the device, no stream is
\* open and no handle is held.
C19_DeviceExclusiveAndReleased ==
    /\ [](Cardinality(openStreams) <= 1)
    /\ [](openStreams = (IF stream = 0 THEN {} ELSE {stream}))
    /\ []((~recording /\ ~locked) => stream = 0)
    /\ [][(locked /\ ~locked') => (stream' = 0 /\ openStreams' = {})]_vars

\* The device has been reopened for a second session after the stop() of the
\* first one released it.
C19_Witness == sess = 2 /\ recording /\ stream = 2 /\ openStreams = {2} /\ ~locked

\* C20 (as claimed): when the callback reports a fault during a recording the
\* session is stopped: the callback that was handed the fault does not
\* append its block and return with the capture still recording.
C20_FaultStopsSession ==
    [][(cb.pc = "append" /\ cb.fault /\ cb'.pc = "idle")
         => (frames' = frames /\ ~recording')]_vars

\* C21 (as claimed): when scoring a block raises inside the silence monitor,
\* the session is aborted: as the monitor ends, the capture is stopped and the
\* controller is in IDLE.
C21_VadErrorAbortsSession ==
    [][\A m \in Sessions :
          (mon[m].pc = "body" /\ frames # <<>> /\ mon'[m].pc = "none")
              => (~recording' /\ state' = IDLE)]_vars

\* C22: start() called while a recording is open is a no-op. A start() call
\* made while _recording is set changes nothing of the capture: not the
\* frame list, the flag, the stream handle, the open streams or the start
\* time (the duration limit once read stays read); and as long as the flag
\* is set no step opens a stream or starts a session.
C22_StartWhileOpenNoOp ==
    [][/\ (start_calls' # start_calls /\ recording) => UNCHANGED <<audioVars, histVars>>
       /\ recording => /\ sess' = sess
                       /\ stream' = stream
                       /\ openStreams' = openStreams
                       /\ overLimit => overLimit'
                       /\ Len(frames') >= Len(frames)]_vars

\* A second start() was called while the first recording, with a captured
\* block, was open: one session, one stream.
C22_Witness ==
    /\ start_calls = 2 /\ sess = 1
    /\ recording /\ frames # <<>>
    /\ stream = 1 /\ openStreams = {1}

\* The positions from..Len(list) of the handlers of a list that are plain
\* functions, in list order.
RECURSIVE SyncPositions(_, _)
SyncPositions(list, from) ==
    IF from > Len(list) THEN <<>>
    ELSE (IF list[from] # "async" THEN <<from>> ELSE <<>>)
             \o SyncPositions(list, from + 1)

\* C23: emit calls every synchronous handler registered for the event exactly
\* once and in registration order, a raising handler neither keeps the later
\* ones from being called nor lets its exception out of emit, and emit on an
\* event with no handlers does nothing. When emit has returned, the handlers
\* it called are the synchronous ones of the list, each once, in list order;
\* during the loop they are those before the current position; the
\* exception never leaves emit; with no handlers nothing was called or
\* scheduled.
C23_EmitCallsAllInOrder ==
    /\ emit.pc # "raised"
    /\ emit.pc = "returned" =>
          /\ called = SyncPositions(handlers[emit.event], 1)
          /\ handlers[emit.event] = <<>> => (called = <<>> /\ scheduled = <<>>)
    /\ emit.pc = "loop" =>
          called \o SyncPositions(handlers[emit.event], emit.i)
              = SyncPositions(handlers[emit.event], 1)

\* emit returned after a raising handler registered first and a good one
\* registered after it were both called.
C23_Witness ==
    /\ emit.pc = "returned"
    /\ handlers[emit.event] = <<"raises", "sync">>
    /\ called = <<1, 2>>

\* C24: serializing a buffer of k mono 16-bit samples with _to_wav and
\* parsing the result yields channel count 1, sample width 2 bytes, the
\* capture sample rate as frame rate and frame count k; N seconds at 16 kHz
\* give N x 16000 frames.
C24_WavRoundTrip ==
    parsed # NoWav =>
        /\ parsed = [nchannels |-> 1, sampwidth |-> 2,
                     framerate |-> sample_rate, nframes |-> samples]
        /\ \A n \in 1 .. MaxSeconds :
              (sample_rate = 16000 /\ samples = n * sample_rate)
                  => parsed.nframes = n * 16000

\* Two seconds captured at 16 kHz were serialized and parsed.
C24_Witness ==
    /\ sample_rate = 16000
    /\ samples = 2 * 16000
    /\ parsed # NoWav
    /\ parsed.nframes = 32000

\* C25: when paste simulation fails, inject returns False, emits
\* inject.error and no inject.complete, and the text it wrote stays on the
\* clipboard: the injector does not overwrite it afterwards.
C25_PasteFailureKeepsText ==
    (inject.pc = "returned" /\ inject.failed = "paste") =>
        /\ inject.result = FALSE
        /\ inject.events = <<"inject.error">>
        /\ clipboard = inject.text

\* C26: is_speech() on a sub-threshold block returns false and leaves
\* speech_detected, speech_start_time and last_speech_time unchanged; on a
\* block at or above the threshold it sets speech_start_time only if speech
\* had not yet been detected and always sets last_speech_time to the clock
\* reading.
C26_IsSpeechFrame ==
    [][speech_call' # speech_call =>
         IF speech_call'.prob < VAD_THRESHOLD
         THEN /\ ~speech_call'.result
              /\ UNCHANGED <<speech_detected, speech_start_time, last_speech_time>>
         ELSE /\ speech_call'.result
              /\ speech_detected'
              /\ speech_start_time' =
                    (IF speech_detected THEN speech_start_time ELSE now)
              /\ last_speech_time' = now]_vars

\* A sub-threshold block scored after speech was detected earlier: the
\* answer was false and the speech is still on record.
C26_Witness ==
    /\ speech_call.prob = 4 /\ ~speech_call.result
    /\ speech_detected
    /\ speech_start_time > 0
    /\ last_speech_time < now

\* should_stop as a function of the three fields and the clock reading.
ShouldStopOf(detected, start, last, clock) ==
    /\ detected
    /\ start # NoTime
    /\ last - start >= VAD_MIN_SPEECH_DURATION
    /\ clock - last >= VAD_SILENCE_DURATION

\* C27: should_stop() has no side effects. Every call leaves the fields of
\* the detector and the clock as they were, however many calls were made
\* before, and its answer is a function of the three fields and the clock
\* reading alone.
C27_ShouldStopPure ==
    [][stop_calls' # stop_calls =>
         /\ UNCHANGED <<speech_detected, speech_start_time, last_speech_time, now>>
         /\ stop_result' =
               (IF ShouldStopOf(speech_detected, speech_start_time,
                                last_speech_time, now)
                THEN "True" ELSE "False")]_vars

\* should_stop() was called an even number of times, at least twice, and the
\* last call answered True with the speech still on record.
C27_Witness ==
    /\ stop_calls = 0
    /\ stop_result = "True"
    /\ should_stop

\* C28 (as claimed): in every reachable state, controller state IDLE implies
\* that the capture is not recording; in particular a pipeline run of an
\* earlier session that finishes does not put the controller in IDLE while a
\* later session records.
C28_IdleImpliesNotRecording ==
    state = IDLE => ~recording

\* The silence monitors that have been started and have not yet returned.
MonitorsAlive == {m \in Sessions : mon[m].pc # "none"}

\* C29 (as claimed): at most one silence-monitor loop is alive at any time,
\* also when a stop is followed at once by a new start while the old
\* monitor still sleeps; two monitors never poll the detector or call the
\* stop transition concurrently.
C29_SingleMonitorAlive ==
    Cardinality(MonitorsAlive) <= 1

\* C30 (as claimed): a stop scheduled by the duration guard of one session
\* never terminates a later session. A worker spawned by a callback of
\* session s that enters stop() when a later session is the current one
\* does not clear the recording flag, close a stream or hand off audio.
C30_StaleGuardStopHarmless ==
    [][/\ \A s \in Sessions :
            (wrk.pend[s] > 0 /\ wrk'.pend[s] < wrk.pend[s] /\ s < sess)
                => recording' = recording
       /\ (wrk.fin # 0 /\ wrk.fin < sess /\ wrk'.fin = 0)
                => (openStreams' = openStreams /\ handoff' = handoff)]_vars

====
